---- MODULE Spec2Model ----
(***************************************************************************)
(* Excel Copilot front-end: session lifecycle (useSession), the persisted  *)
(* application store (useAppStore), the analysis orchestrator              *)
(* (useAnalysis) and the upload orchestrator (DropZone).                   *)
(*                                                                         *)
(* The browser runs one event loop: every action below is one synchronous  *)
(* stretch of code between two awaits (a handler up to its first await, or *)
(* the continuation of an await up to the next one).                       *)
(***************************************************************************)
EXTENDS Integers, Sequences, FiniteSets, TLC

\* ------------------------------------------------------------------ bounds
NumHooks   == 2    \* mounted instances of useSession
MaxCreates == 2    \* createSessionMutation.mutate() executions
MaxPolls   == 2    \* getSessionQuery fetches
MaxCalls   == 2    \* orchestrated calls (analyze + upload)
MaxDrops   == 2    \* onDrop invocations
NumOpIds   == 2    \* distinct values of Math.random().toString(36).substring(7)
MaxLedgerAdds == 52 \* direct addOperation calls
ProgressTotal == 2 \* progressEvent.total of an upload

Hooks == 1..NumHooks

\* --------------------------------------------------------------- constants
NoId    == 0       \* null / undefined session identifier
SavedId == 1       \* identifier left in localStorage by an earlier page life
NULL    == "null"  \* null string (error slot, callback argument)

\* useAppStore: session: null
NoSession == [session_id |-> NoId]

\* the session record the backend serves for an identifier
SessionOf(id) == [session_id |-> id, user_id |-> "default"]

VARIABLES
    session,      \* useAppStore.session
    lsSessionId,  \* localStorage['sessionId']
    backend,      \* session identifiers the backend knows
    boot,         \* per useSession instance: position of initializeSession
    execs,        \* executions of createSessionMutation, in mutate() order
    query,        \* per useSession instance: getSessionQuery
    polls,        \* number of getSessionQuery fetches issued
    currentFile,  \* useAppStore.currentFile
    operations,   \* useAppStore.operations, newest first
    isLoading,    \* useAppStore.isLoading
    error,        \* useAppStore.error
    darkMode,     \* useAppStore.darkMode
    snapshot,     \* localStorage['excel-copilot-store']
    calls,        \* orchestrated calls (analyze, upload), in start order
    uploadProgress, \* DropZone state
    dropped,      \* the acceptedFiles arguments onDrop was invoked with
    onErrorProp,  \* whether DropZone was given the optional onError prop
    onErrorArg,   \* last argument passed to the onError prop
    onFileUploadArg, \* last argument passed to the onFileUpload prop
    clock         \* Date: advances with every timestamp taken

sessionVars == <<session, lsSessionId, backend, boot, execs, query, polls>>
storeVars == <<currentFile, operations, isLoading, error, darkMode, snapshot>>
orchVars == <<calls, uploadProgress, dropped, onErrorProp, onErrorArg, onFileUploadArg, clock>>
vars == <<session, lsSessionId, backend, boot, execs, query, polls,
          currentFile, operations, isLoading, error, darkMode, snapshot,
          calls, uploadProgress, dropped, onErrorProp, onErrorArg, onFileUploadArg, clock>>

\* ------------------------------------------------------------------ store
LedgerCap   == 50  \* addOperation: .slice(0, 50)
SnapshotCap == 10  \* partialize: .slice(0, 10)

Min(a, b) == IF a < b THEN a ELSE b

\* Array.prototype.slice(start, end) for 0 <= start <= end
slice(arr, start, end) == SubSeq(arr, start + 1, Min(end, Len(arr)))

\* mutant of setSession: the setter drops its argument
setSessionIgnored(s) == session

\* setSession: (session) => set({ session })
setSession(s) == s

\* mutant of addOperation: the slice is missing
addOperationUnbounded(ops, operation) == <<operation>> \o ops

\* mutant of addOperation: the entry is appended instead of prepended
addOperationAtTail(ops, operation) == slice(ops \o <<operation>>, 0, LedgerCap)

\* addOperation: [operation, ...state.operations].slice(0, 50)
addOperation(ops, operation) == slice(<<operation>> \o ops, 0, LedgerCap)

\* persist: partialize, written to localStorage after every set()
partialize(dm, ops) == [darkMode |-> dm, operations |-> slice(ops, 0, SnapshotCap)]

\* ---------------------------------------------------------------- gateway
\* POST /api/session/create answers with an identifier the backend did not
\* know before
FreshId == SavedId + Cardinality(backend \ {SavedId}) + 1

\* ------------------------------------------------------------- useSession
IdleQuery == [status |-> "idle", id |-> NoId, error |-> NULL, data |-> NoId]

\* getSessionQuery starts queryFn for the key ['session', session.session_id];
\* the data of an earlier fetch stays only if it is of the same key
fetching(q) ==
    [status |-> "fetching", id |-> session.session_id, error |-> NULL,
     data |-> IF q.data = session.session_id THEN q.data ELSE NoId]

\* createSessionMutation.mutate(): the mutationFn starts and posts
\* /api/session/create
mutate(h, origin) ==
    Append(execs, [hook |-> h, origin |-> origin, state |-> "awaitCreate", id |-> NoId])

\* create<AppStore>()(persist(...)): the initial store, and no hook mounted
InitStore ==
    /\ currentFile = NULL
    /\ operations = <<>>
    /\ isLoading = FALSE
    /\ error = NULL
    /\ darkMode = FALSE
    /\ snapshot = partialize(FALSE, <<>>)

InitOrch ==
    /\ calls = <<>>
    /\ uploadProgress = 0
    /\ dropped = <<>>
    /\ onErrorArg = NULL
    /\ onFileUploadArg = NoId
    /\ clock = 0

Init ==
    /\ session = NoSession
    /\ lsSessionId \in {NoId, SavedId}
    /\ backend \in {{}, {SavedId}}
    /\ boot = [h \in Hooks |-> [pc |-> "unmounted", id |-> NoId, failure |-> "none"]]
    /\ execs = <<>>
    /\ query = [h \in Hooks |-> IdleQuery]
    /\ polls = 0
    /\ InitStore
    /\ InitOrch
    /\ onErrorProp = FALSE   \* Home renders DropZone without onError

\* useEffect(() => { initializeSession() }, []) up to its first await
Mount(h) ==
    /\ boot[h].pc = "unmounted"
    /\ LET savedSessionId == lsSessionId IN
       IF savedSessionId # NoId /\ session = NoSession
       THEN /\ boot' = [boot EXCEPT ![h] = [pc |-> "restoring", id |-> savedSessionId, failure |-> "none"]]
            /\ UNCHANGED execs
       ELSE IF session = NoSession
       THEN /\ Len(execs) < MaxCreates
            /\ boot' = [boot EXCEPT ![h] = [pc |-> "creating", id |-> NoId, failure |-> "none"]]
            /\ execs' = mutate(h, "bootstrap")
       ELSE /\ boot' = [boot EXCEPT ![h] = [pc |-> "ready", id |-> NoId, failure |-> "none"]]
            /\ UNCHANGED execs
    \* getSessionQuery is enabled from the first render when the Store holds a
    \* session, and fetches on mount
    /\ IF session.session_id # NoId
       THEN /\ polls < MaxPolls
            /\ query' = [query EXCEPT ![h] = fetching(query[h])]
            /\ polls' = polls + 1
       ELSE UNCHANGED <<query, polls>>
    /\ UNCHANGED <<session, lsSessionId, backend>>
    /\ UNCHANGED <<storeVars, orchVars>>

\* await apiClient.getSession(savedSessionId) resolves; setSession
RestoreOk(h) ==
    /\ boot[h].pc = "restoring"
    /\ boot[h].id \in backend
    /\ session' = setSession(SessionOf(boot[h].id))
    /\ boot' = [boot EXCEPT ![h].pc = "ready"]
    /\ UNCHANGED <<lsSessionId, backend, execs, query, polls>>
    /\ UNCHANGED <<storeVars, orchVars>>

\* await apiClient.getSession(savedSessionId) rejects; catch { mutate() }
RestoreFail(h, reason) ==
    /\ boot[h].pc = "restoring"
    /\ reason = "unknown" => boot[h].id \notin backend
    /\ Len(execs) < MaxCreates
    /\ boot' = [boot EXCEPT ![h].pc = "creating", ![h].failure = reason]
    /\ execs' = mutate(h, "bootstrap")
    /\ UNCHANGED <<session, lsSessionId, backend, query, polls>>
    /\ UNCHANGED <<storeVars, orchVars>>

\* createSession: () => createSessionMutation.mutate()
ExplicitCreate(h) ==
    /\ boot[h].pc # "unmounted"
    /\ Len(execs) < MaxCreates
    /\ execs' = mutate(h, "explicit")
    /\ UNCHANGED <<session, lsSessionId, backend, boot, query, polls>>
    /\ UNCHANGED <<storeVars, orchVars>>

\* mutant of CreateOk: the identifier is persisted before the follow-up fetch
CreateOkPersistsEarly(e) ==
    /\ e \in DOMAIN execs
    /\ execs[e].state = "awaitCreate"
    /\ backend' = backend \cup {FreshId}
    /\ execs' = [execs EXCEPT ![e].state = "awaitFetch", ![e].id = FreshId]
    /\ lsSessionId' = FreshId
    /\ UNCHANGED <<session, boot, query, polls>>
    /\ UNCHANGED <<storeVars, orchVars>>

\* await apiClient.createSession() resolves; getSession(session_id) is sent
CreateOk(e) ==
    /\ e \in DOMAIN execs
    /\ execs[e].state = "awaitCreate"
    /\ backend' = backend \cup {FreshId}
    /\ execs' = [execs EXCEPT ![e].state = "awaitFetch", ![e].id = FreshId]
    /\ UNCHANGED <<session, lsSessionId, boot, query, polls>>
    /\ UNCHANGED <<storeVars, orchVars>>

\* await apiClient.createSession() rejects: the mutation fails
CreateFail(e) ==
    /\ e \in DOMAIN execs
    /\ execs[e].state = "awaitCreate"
    /\ execs' = [execs EXCEPT ![e].state = "error"]
    /\ UNCHANGED <<session, lsSessionId, backend, boot, query, polls>>
    /\ UNCHANGED <<storeVars, orchVars>>

\* mutant of onSuccess: localStorage.setItem is missing
onSuccessNoPersist(sessionData) ==
    /\ session' = setSession(sessionData)
    /\ lsSessionId' = lsSessionId

\* onSuccess: setSession(sessionData); localStorage.setItem('sessionId', ...)
onSuccess(sessionData) ==
    /\ session' = setSession(sessionData)
    /\ lsSessionId' = sessionData.session_id

\* await apiClient.getSession(session_id) resolves; mutationFn returns and
\* onSuccess runs
FetchOk(e) ==
    /\ e \in DOMAIN execs
    /\ execs[e].state = "awaitFetch"
    /\ execs[e].id \in backend
    /\ onSuccess(SessionOf(execs[e].id))
    /\ execs' = [execs EXCEPT ![e].state = "success"]
    /\ UNCHANGED <<backend, boot, query, polls>>
    /\ UNCHANGED <<storeVars, orchVars>>

\* await apiClient.getSession(session_id) rejects: the mutation fails
FetchFail(e) ==
    /\ e \in DOMAIN execs
    /\ execs[e].state = "awaitFetch"
    /\ execs' = [execs EXCEPT ![e].state = "error"]
    /\ UNCHANGED <<session, lsSessionId, backend, boot, query, polls>>
    /\ UNCHANGED <<storeVars, orchVars>>

\* getSessionQuery: enabled: !!session?.session_id; first fetch of a key and
\* the 30 s refetchInterval
QueryFetch(h) ==
    /\ boot[h].pc # "unmounted"
    /\ session.session_id # NoId
    /\ query[h].status # "fetching"
    /\ polls < MaxPolls
    /\ query' = [query EXCEPT ![h] = fetching(query[h])]
    /\ polls' = polls + 1
    /\ UNCHANGED <<session, lsSessionId, backend, boot, execs>>
    /\ UNCHANGED <<storeVars, orchVars>>

\* queryFn resolves: the result stays in the query
QueryOk(h) ==
    /\ query[h].status = "fetching"
    /\ query[h].id \in backend
    /\ query' = [query EXCEPT ![h].status = "success", ![h].data = query[h].id]
    /\ UNCHANGED <<session, lsSessionId, backend, boot, execs, polls>>
    /\ UNCHANGED <<storeVars, orchVars>>

\* mutant of QueryFail: a failed refresh clears the session
QueryFailClearsSession(h) ==
    /\ query[h].status = "fetching"
    /\ query' = [query EXCEPT ![h].status = "error", ![h].error = "Network Error"]
    /\ session' = NoSession
    /\ UNCHANGED <<lsSessionId, backend, boot, execs, polls>>
    /\ UNCHANGED <<storeVars, orchVars>>

\* queryFn rejects: the error stays in the query
QueryFail(h) ==
    /\ query[h].status = "fetching"
    /\ query' = [query EXCEPT ![h].status = "error", ![h].error = "Network Error"]
    /\ UNCHANGED <<session, lsSessionId, backend, boot, execs, polls>>
    /\ UNCHANGED <<storeVars, orchVars>>

\* createSessionMutation.isPending: the state of the hook's latest mutate()
isPending(h) ==
    LET mine == {e \in DOMAIN execs : execs[e].hook = h} IN
    /\ mine # {}
    /\ LET last == CHOOSE e \in mine : \A f \in mine : f <= e IN
       execs[last].state \in {"awaitCreate", "awaitFetch"}

\* isLoading: createSessionMutation.isPending || getSessionQuery.isLoading
\* (the query is fetching and holds no data yet)
sessionLoading(h) ==
    \/ isPending(h)
    \/ query[h].status = "fetching" /\ query[h].data = NoId

\* Home: Spinner while sessionLoading, "Failed to initialize session" when
\* there is no session, the page otherwise
HomeView(h) ==
    IF sessionLoading(h) THEN "Spinner"
    ELSE IF session = NoSession THEN "Failed to initialize session"
    ELSE "page"

\* initializeSession, createSessionMutation and createSession
BootNext ==
    \/ \E h \in Hooks : Mount(h)
    \/ \E h \in Hooks : RestoreOk(h)
    \/ \E h \in Hooks, reason \in {"unknown", "network"} : RestoreFail(h, reason)
    \/ \E h \in Hooks : ExplicitCreate(h)
    \/ \E e \in 1..MaxCreates : CreateOk(e)
    \/ \E e \in 1..MaxCreates : CreateFail(e)
    \/ \E e \in 1..MaxCreates : FetchOk(e)
    \/ \E e \in 1..MaxCreates : FetchFail(e)

\* getSessionQuery
PollNext ==
    \/ \E h \in Hooks : QueryFetch(h)
    \/ \E h \in Hooks : QueryOk(h)
    \/ \E h \in Hooks : QueryFail(h)

\* ------------------------------------------------------------ useAnalysis
Prompts == {"Filter rows where status is Active", "Sort by amount in descending order"}
Codes   == {"df[df.status=='Active']", "df.sort_values('amount')"}
FileIds == {1}
OpIds   == 1..NumOpIds

\* what a rejected Gateway promise carries: an Error with a message, or a
\* value that is not an Error
Rejections == {[isError |-> TRUE, message |-> "Network Error"],
               [isError |-> FALSE, message |-> NULL]}

\* mutant of messageOf: the thrown error's message is not used
messageOfFallback(err, fallback) == fallback

\* error instanceof Error ? error.message : fallback
messageOf(err, fallback) == IF err.isError THEN err.message ELSE fallback

IdleCall == [kind |-> "none", state |-> "idle", sessionId |-> NoId, fileId |-> NoId,
             prompt |-> NULL, file |-> NULL, returned |-> NULL, thrown |-> NULL]

Awaiting(kind) == {c \in DOMAIN calls : calls[c].kind = kind /\ calls[c].state = "awaiting"}

\* analyze({ sessionId, fileId, prompt }): mutationFn up to the await of
\* apiClient.analyzePrompt
AnalyzeStart(fileId, prompt) ==
    /\ session # NoSession
    /\ Len(calls) < MaxCalls
    /\ isLoading' = TRUE
    /\ calls' = Append(calls, [IdleCall EXCEPT !.kind = "analyze", !.state = "awaiting",
                                               !.sessionId = session.session_id,
                                               !.fileId = fileId, !.prompt = prompt])
    /\ snapshot' = partialize(darkMode, operations)
    /\ UNCHANGED <<currentFile, operations, error, darkMode>>
    /\ UNCHANGED <<uploadProgress, dropped, onErrorProp, onErrorArg, onFileUploadArg, clock>>
    /\ UNCHANGED sessionVars

\* analyzePrompt resolves: addOperation(success), return result, finally
AnalyzeOk(c, code, opId) ==
    /\ c \in Awaiting("analyze")
    /\ LET result == [success |-> TRUE, code |-> code]
           op == [operation_id |-> opId, type |-> "analyze", timestamp |-> clock,
                  status |-> "success",
                  data |-> [prompt |-> calls[c].prompt, code |-> result.code]]
       IN /\ operations' = addOperation(operations, op)
          /\ calls' = [calls EXCEPT ![c].state = "ok", ![c].returned = result]
    /\ clock' = clock + 1
    /\ isLoading' = FALSE
    /\ snapshot' = partialize(darkMode, operations')
    /\ UNCHANGED <<currentFile, error, darkMode>>
    /\ UNCHANGED <<uploadProgress, dropped, onErrorProp, onErrorArg, onFileUploadArg>>
    /\ UNCHANGED sessionVars

\* analyzePrompt rejects: setError, addOperation(error), throw, finally
AnalyzeFail(c, err, opId) ==
    /\ c \in Awaiting("analyze")
    /\ LET errorMessage == messageOf(err, "Analysis failed")
           op == [operation_id |-> opId, type |-> "analyze", timestamp |-> clock,
                  status |-> "error", error_message |-> errorMessage]
       IN /\ error' = errorMessage
          /\ operations' = addOperation(operations, op)
          /\ calls' = [calls EXCEPT ![c].state = "error", ![c].thrown = err]
    /\ clock' = clock + 1
    /\ isLoading' = FALSE
    /\ snapshot' = partialize(darkMode, operations')
    /\ UNCHANGED <<currentFile, darkMode>>
    /\ UNCHANGED <<uploadProgress, dropped, onErrorProp, onErrorArg, onFileUploadArg>>
    /\ UNCHANGED sessionVars

\* --------------------------------------------------------------- DropZone
XlsxMime == <<"a","p","p","l","i","c","a","t","i","o","n","/","v","n","d",".","o","p","e","n","x","m","l","f","o","r","m","a","t","s","-","o","f","f","i","c","e","d","o","c","u","m","e","n","t",".","s","p","r","e","a","d","s","h","e","e","t","m","l",".","s","h","e","e","t">>
XlsMime  == <<"a","p","p","l","i","c","a","t","i","o","n","/","v","n","d",".","m","s","-","e","x","c","e","l">>
PdfMime  == <<"a","p","p","l","i","c","a","t","i","o","n","/","p","d","f">>
OdsMime  == <<"a","p","p","l","i","c","a","t","i","o","n","/","v","n","d",".","o","a","s","i","s",".","o","p","e","n","d","o","c","u","m","e","n","t",".","s","p","r","e","a","d","s","h","e","e","t">>

Files == {[name |-> <<"r","e","p","o","r","t",".","p","d","f">>, type |-> PdfMime],
          [name |-> <<"d","a","t","a",".","x","l","s","x">>, type |-> XlsxMime],
          [name |-> <<"d","a","t","a",".","x","l","s","x">>, type |-> <<>>],
          [name |-> <<"d","a","t","a",".","x","l","s">>, type |-> XlsMime],
          [name |-> <<"b","u","d","g","e","t",".","o","d","s">>, type |-> OdsMime]}

\* String.prototype.includes
includes(str, sub) ==
    \E i \in 1..(Len(str) - Len(sub) + 1) : SubSeq(str, i, i + Len(sub) - 1) = sub

\* String.prototype.endsWith
endsWith(str, suffix) ==
    /\ Len(suffix) <= Len(str)
    /\ SubSeq(str, Len(str) - Len(suffix) + 1, Len(str)) = suffix

\* mutant of isValidFile: any dropped file passes
isValidFileAnyFile(acceptedFiles) == acceptedFiles # <<>>

\* onDrop: file && (file.type.includes('spreadsheet') || file.name.endsWith('.xlsx'))
isValidFile(acceptedFiles) ==
    /\ acceptedFiles # <<>>
    /\ LET file == acceptedFiles[1] IN
       \/ includes(file.type, <<"s","p","r","e","a","d","s","h","e","e","t">>)
       \/ endsWith(file.name, <<".","x","l","s","x">>)

ValidationMessage == "Please upload a valid Excel file (.xlsx)"

\* onError?.(message)
callOnError(message) == IF onErrorProp THEN message ELSE onErrorArg

\* onDrop(acceptedFiles); useDropzone is disabled while uploadMutation.isPending.
\* A valid file: uploadMutation.mutate(file) up to the await of uploadFile.
Drop(acceptedFiles) ==
    /\ session # NoSession
    /\ currentFile = NULL
    /\ Awaiting("upload") = {}
    /\ Len(dropped) < MaxDrops
    /\ dropped' = Append(dropped, acceptedFiles)
    /\ IF isValidFile(acceptedFiles)
       THEN /\ Len(calls) < MaxCalls
            /\ isLoading' = TRUE
            /\ calls' = Append(calls, [IdleCall EXCEPT !.kind = "upload", !.state = "awaiting",
                                                       !.sessionId = session.session_id,
                                                       !.file = acceptedFiles[1]])
            /\ UNCHANGED <<error, onErrorArg>>
       ELSE /\ error' = ValidationMessage
            /\ onErrorArg' = callOnError(ValidationMessage)
            /\ UNCHANGED <<isLoading, calls>>
    /\ snapshot' = partialize(darkMode, operations)
    /\ UNCHANGED <<currentFile, operations, darkMode>>
    /\ UNCHANGED <<uploadProgress, onErrorProp, onFileUploadArg, clock>>
    /\ UNCHANGED sessionVars

\* Math.round(x / y) for x >= 0, y > 0
round(x, y) == (2 * x + y) \div (2 * y)

\* uploadFile onUploadProgress: if (progressEvent.total) setUploadProgress(
\* Math.round((progressEvent.loaded * 100) / progressEvent.total))
UploadProgress(c, loaded, total) ==
    /\ c \in Awaiting("upload")
    /\ uploadProgress' = IF total # 0 THEN round(loaded * 100, total) ELSE uploadProgress
    /\ UNCHANGED <<calls, dropped, onErrorProp, onErrorArg, onFileUploadArg, clock>>
    /\ UNCHANGED storeVars
    /\ UNCHANGED sessionVars

\* uploadFile resolves: finally setLoading(false); onSuccess:
\* setUploadProgress(0); onFileUpload(data.file_id), which Home only logs
UploadOk(c) ==
    /\ c \in Awaiting("upload")
    /\ LET data == [success |-> TRUE, file_id |-> c] IN
       /\ calls' = [calls EXCEPT ![c].state = "ok", ![c].returned = data]
       /\ onFileUploadArg' = data.file_id
    /\ isLoading' = FALSE
    /\ uploadProgress' = 0
    /\ snapshot' = partialize(darkMode, operations)
    /\ UNCHANGED <<currentFile, operations, error, darkMode>>
    /\ UNCHANGED <<dropped, onErrorProp, onErrorArg, clock>>
    /\ UNCHANGED sessionVars

\* uploadFile rejects: finally setLoading(false); onError: setError(message);
\* onError?.(message)
UploadFail(c, err) ==
    /\ c \in Awaiting("upload")
    /\ LET message == messageOf(err, "Upload failed") IN
       /\ error' = message
       /\ onErrorArg' = callOnError(message)
    /\ calls' = [calls EXCEPT ![c].state = "error", ![c].thrown = err]
    /\ isLoading' = FALSE
    /\ snapshot' = partialize(darkMode, operations)
    /\ UNCHANGED <<currentFile, operations, darkMode>>
    /\ UNCHANGED <<uploadProgress, dropped, onErrorProp, onFileUploadArg, clock>>
    /\ UNCHANGED sessionVars

\* clearOperations: () => set({ operations: [] })
ClearOperations ==
    /\ operations # <<>>
    /\ operations' = <<>>
    /\ snapshot' = partialize(darkMode, operations')
    /\ UNCHANGED <<currentFile, isLoading, error, darkMode>>
    /\ UNCHANGED orchVars
    /\ UNCHANGED sessionVars

OrchNext ==
    \/ \E f \in FileIds, p \in Prompts : AnalyzeStart(f, p)
    \/ \E c \in 1..MaxCalls, code \in Codes, o \in OpIds : AnalyzeOk(c, code, o)
    \/ \E c \in 1..MaxCalls, err \in Rejections, o \in OpIds : AnalyzeFail(c, err, o)
    \/ \E fs \in {<<>>} \cup {<<f>> : f \in Files} : Drop(fs)
    \/ \E c \in 1..MaxCalls, total \in {0, ProgressTotal}, loaded \in 0..ProgressTotal :
          loaded <= total /\ UploadProgress(c, loaded, total)
    \/ \E c \in 1..MaxCalls : UploadOk(c)
    \/ \E c \in 1..MaxCalls, err \in Rejections : UploadFail(c, err)
    \/ ClearOperations

\* the page after bootstrap: Home renders DropZone and PromptInput only with a
\* session in the Store
InitReady ==
    /\ session = SessionOf(SavedId)
    /\ lsSessionId = SavedId
    /\ backend = {SavedId}
    /\ boot = [h \in Hooks |-> [pc |-> "ready", id |-> SavedId, failure |-> "none"]]
    /\ execs = <<>>
    /\ query = [h \in Hooks |-> IdleQuery]
    /\ polls = 0
    /\ InitStore
    /\ InitOrch
    /\ onErrorProp \in BOOLEAN

OrchSpec == InitReady /\ [][OrchNext]_vars

\* ----------------------------------------------------------------- ledger
\* addOperation(operation) called on the store directly
AddOperation(opId) ==
    /\ clock < MaxLedgerAdds
    /\ LET op == [operation_id |-> opId, type |-> "upload", timestamp |-> clock,
                  status |-> "pending"]
       IN operations' = addOperation(operations, op)
    /\ clock' = clock + 1
    /\ snapshot' = partialize(darkMode, operations')
    /\ UNCHANGED <<currentFile, isLoading, error, darkMode>>
    /\ UNCHANGED <<calls, uploadProgress, dropped, onErrorProp, onErrorArg, onFileUploadArg>>
    /\ UNCHANGED sessionVars

\* toggleDarkMode: () => set((state) => ({ darkMode: !state.darkMode }))
ToggleDarkMode ==
    /\ darkMode' = ~darkMode
    /\ snapshot' = partialize(darkMode', operations)
    /\ UNCHANGED <<currentFile, operations, isLoading, error>>
    /\ UNCHANGED orchVars
    /\ UNCHANGED sessionVars

LedgerNext ==
    \/ AddOperation(1)
    \/ ClearOperations
    \/ ToggleDarkMode

LedgerSpec == InitReady /\ [][LedgerNext]_vars

\* useSession: bootstrap, creation and background refresh
Next ==
    \/ BootNext
    \/ PollNext

Spec == Init /\ [][Next]_vars

\* useSession without the background refresh
BootSpec == Init /\ [][BootNext]_vars

\* every request sent to the Gateway settles: it resolves, or it rejects at
\* the latest when the 60 s axios timeout expires
FairBootSpec ==
    /\ BootSpec
    /\ \A h \in Hooks : WF_vars(RestoreOk(h) \/ \E r \in {"unknown", "network"} : RestoreFail(h, r))
    /\ \A e \in 1..MaxCreates : WF_vars(CreateOk(e) \/ CreateFail(e))
    /\ \A e \in 1..MaxCreates : WF_vars(FetchOk(e) \/ FetchFail(e))

\* ================================================================ claims

BootstrapExecs(x) == {e \in DOMAIN x : x[e].origin = "bootstrap"}
BootstrapExecsOf(x, h) == {e \in BootstrapExecs(x) : x[e].hook = h}
Unsettled(x) == \A e \in DOMAIN x : x[e].state \in {"awaitCreate", "awaitFetch"}

\* C1: while no bootstrap has resolved yet (no creation has settled, no
\* restore has completed, the Store holds no session), the bootstrap triggers
\* fired so far have issued at most one createSession request.
C1_SingleCreationRequest ==
    (/\ session = NoSession
     /\ Unsettled(execs)
     /\ \A h \in Hooks : boot[h].pc # "ready")
    => Cardinality(BootstrapExecs(execs)) <= 1

\* C2: the loading flag is true exactly while some orchestrated call
\* (analyze or upload) is awaiting the Gateway, and false otherwise.
C2_LoadingIffAwaiting ==
    isLoading <=> (Awaiting("analyze") \cup Awaiting("upload") # {})

ExecSucceeds(e) ==
    /\ e \in DOMAIN execs
    /\ execs[e].state = "awaitFetch"
    /\ execs'[e].state = "success"

\* C3: a bootstrap whose restore fetch failed because the backend does not
\* know the cached identifier has issued exactly one createSession request,
\* and when that creation and its follow-up fetch succeed the newly created
\* identifier (not the cached one) is written to localStorage['sessionId'].
C3_UnknownIdFallsBackOnce ==
    /\ [](\A h \in Hooks : boot[h].failure = "unknown"
              => Cardinality(BootstrapExecsOf(execs, h)) = 1)
    /\ [][\A h \in Hooks : \A e \in BootstrapExecsOf(execs, h) :
              (boot[h].failure = "unknown" /\ ExecSucceeds(e))
              => /\ lsSessionId' = execs[e].id
                 /\ execs[e].id # boot[h].id
                 /\ execs[e].id # NoId]_vars

C3_Witness ==
    \E h \in Hooks : \E e \in BootstrapExecsOf(execs, h) :
        /\ boot[h].failure = "unknown"
        /\ boot[h].id = SavedId
        /\ execs[e].state = "success"
        /\ lsSessionId = execs[e].id
        /\ lsSessionId # SavedId

\* C4: a bootstrap that finds a cached identifier and no session in the Store
\* sends getSession for exactly the cached identifier and no createSession;
\* when that fetch succeeds the Store holds the session with that identifier
\* and the bootstrap has still issued no createSession request.
C4_RestoreFetchesCachedId ==
    [][\A h \in Hooks :
          /\ (boot[h].pc = "unmounted" /\ boot'[h].pc # "unmounted"
                 /\ lsSessionId # NoId /\ session = NoSession)
             => /\ boot'[h].pc = "restoring"
                /\ boot'[h].id = lsSessionId
                /\ execs' = execs
          /\ (boot[h].pc = "restoring" /\ boot'[h].pc = "ready")
             => /\ boot[h].id \in backend
                /\ session' # NoSession
                /\ session'.session_id = boot[h].id
                /\ BootstrapExecsOf(execs', h) = {}]_vars

C4_Witness ==
    \E h \in Hooks :
        /\ boot[h].pc = "ready"
        /\ boot[h].id = SavedId
        /\ session.session_id = SavedId
        /\ BootstrapExecsOf(execs, h) = {}

\* C5: a bootstrap that finds no cached identifier and no session requests a
\* new session, then fetches its record, and only when that fetch has
\* succeeded populates the Store and writes the identifier to localStorage:
\* the Store and localStorage change in no other step of a creation, and
\* unless the Gateway fails the creation ends with the hook exposing the
\* session with the created identifier.
C5_CreateThenFetchThenPopulate ==
    /\ [][\A e \in DOMAIN execs :
              /\ (execs[e].state = "awaitCreate" /\ execs'[e] # execs[e])
                 => /\ session' = session
                    /\ lsSessionId' = lsSessionId
                    /\ execs'[e].state \in {"awaitFetch", "error"}
              /\ ExecSucceeds(e)
                 => /\ execs[e].id \in backend
                    /\ session' # NoSession
                    /\ session'.session_id = execs[e].id
                    /\ lsSessionId' = execs[e].id]_vars
    /\ [][(session' # session \/ lsSessionId' # lsSessionId)
              => \/ \E e \in DOMAIN execs : ExecSucceeds(e)
                 \/ \E h \in Hooks : boot[h].pc = "restoring" /\ boot'[h].pc = "ready"]_vars
    /\ \A e \in 1..MaxCreates :
          (/\ e \in BootstrapExecs(execs)
           /\ boot[execs[e].hook].id = NoId
           /\ execs[e].state = "awaitCreate")
          ~> (/\ e \in DOMAIN execs
              /\ \/ execs[e].state = "error"
                 \/ /\ execs[e].state = "success"
                    /\ session.session_id = execs[e].id
                    /\ lsSessionId = execs[e].id)

C5_Witness ==
    \E e \in BootstrapExecs(execs) :
        /\ boot[execs[e].hook].id = NoId
        /\ execs[e].state = "success"
        /\ execs[e].id # NoId
        /\ session.session_id = execs[e].id
        /\ lsSessionId = execs[e].id

\* C6: the in-memory ledger never holds more than 50 entries, an insertion
\* into a ledger of 50 puts the new entry first and drops the last one, and
\* the snapshot in localStorage holds the first (newest) entries of the
\* in-memory ledger, at most 10 of them.
C6_LedgerNeverExceedsCap ==
    /\ [](/\ Len(operations) <= 50
          /\ Len(snapshot.operations) <= 10
          /\ Len(snapshot.operations) = Min(10, Len(operations))
          /\ \A i \in 1..Len(snapshot.operations) : snapshot.operations[i] = operations[i])
    /\ [][(Len(operations) = 50 /\ clock' # clock)
              => /\ Len(operations') = 50
                 /\ operations'[1].timestamp = clock
                 /\ \A i \in 2..50 : operations'[i] = operations[i - 1]]_vars

C6_Witness ==
    /\ Len(operations) = 50
    /\ operations[50].timestamp > 0
    /\ Len(snapshot.operations) = 10
    /\ snapshot.operations[1] = operations[1]

AnalyzeSettles(c, state) ==
    /\ calls[c].kind = "analyze"
    /\ calls[c].state = "awaiting"
    /\ calls'[c].state = state

\* C7: when an analyze call's request succeeds, the ledger gains exactly one
\* entry, at the head, of type analyze and status success with the call's
\* prompt and the returned code; the earlier entries follow it in their
\* order; the call returns the response; the loading flag is false.
C7_AnalyzeSuccessRecorded ==
    [][\A c \in DOMAIN calls : AnalyzeSettles(c, "ok")
          => /\ Len(operations') = Min(Len(operations) + 1, 50)
             /\ operations'[1].type = "analyze"
             /\ operations'[1].status = "success"
             /\ operations'[1].data.prompt = calls[c].prompt
             /\ operations'[1].data.code = calls'[c].returned.code
             /\ \A i \in 2..Len(operations') : operations'[i] = operations[i - 1]
             /\ calls'[c].returned.code \in Codes
             /\ isLoading' = FALSE]_vars

C7_Witness ==
    \E c \in DOMAIN calls :
        /\ calls[c].kind = "analyze"
        /\ calls[c].state = "ok"
        /\ Len(operations) = 2
        /\ operations[1].status = "success"
        /\ operations[1].data.prompt = calls[c].prompt
        /\ operations[1].data.code = calls[c].returned.code
        /\ ~isLoading

SuccessCount(ops) == Cardinality({i \in DOMAIN ops : ops[i].status = "success"})

\* C8: when an analyze call's request fails, the ledger gains exactly one
\* entry, at the head, of status error whose message is the failure's
\* message, the error slot holds the same message, the loading flag is
\* false, the call rejects with the failure it received, and the number of
\* success entries does not grow.
C8_AnalyzeFailureRecorded ==
    [][\A c \in DOMAIN calls : AnalyzeSettles(c, "error")
          => /\ Len(operations') = Min(Len(operations) + 1, 50)
             /\ operations'[1].type = "analyze"
             /\ operations'[1].status = "error"
             /\ calls'[c].thrown \in Rejections
             /\ calls'[c].thrown.isError => operations'[1].error_message = calls'[c].thrown.message
             /\ error' = operations'[1].error_message
             /\ error' # NULL
             /\ \A i \in 2..Len(operations') : operations'[i] = operations[i - 1]
             /\ SuccessCount(operations') <= SuccessCount(operations)
             /\ isLoading' = FALSE]_vars

C8_Witness ==
    \E c \in DOMAIN calls :
        /\ calls[c].kind = "analyze"
        /\ calls[c].state = "error"
        /\ calls[c].thrown.isError
        /\ operations # <<>>
        /\ operations[1].status = "error"
        /\ operations[1].error_message = "Network Error"
        /\ error = "Network Error"
        /\ ~isLoading

\* a file whose type does not indicate a spreadsheet and whose name ends in
\* neither .xlsx nor .xls
NotASpreadsheet(file) ==
    /\ ~includes(file.type, <<"s","p","r","e","a","d","s","h","e","e","t">>)
    /\ ~endsWith(file.name, <<".","x","l","s","x">>)
    /\ ~endsWith(file.name, <<".","x","l","s">>)

\* C9: dropping a file that is not a spreadsheet by type or by name starts no
\* upload and leaves the loading flag alone, puts "Please upload a valid Excel
\* file (.xlsx)" in the error slot and passes it to the onError prop when
\* there is one; no upload call is ever started for such a file.
C9_NonSpreadsheetRejectedLocally ==
    /\ [](\A c \in DOMAIN calls : calls[c].kind = "upload" => ~NotASpreadsheet(calls[c].file))
    /\ [][(/\ Len(dropped') = Len(dropped) + 1
           /\ dropped'[Len(dropped')] # <<>>
           /\ NotASpreadsheet(dropped'[Len(dropped')][1]))
          => /\ calls' = calls
             /\ isLoading' = isLoading
             /\ error' = "Please upload a valid Excel file (.xlsx)"
             /\ onErrorProp => onErrorArg' = "Please upload a valid Excel file (.xlsx)"]_vars

C9_Witness ==
    /\ dropped # <<>>
    /\ dropped[Len(dropped)] # <<>>
    /\ dropped[Len(dropped)][1].name = <<"r","e","p","o","r","t",".","p","d","f">>
    /\ error = "Please upload a valid Excel file (.xlsx)"
    /\ onErrorArg = "Please upload a valid Excel file (.xlsx)"
    /\ \A c \in DOMAIN calls : calls[c].kind # "upload"

\* C10: no step of the background refresh (its start, its success, its
\* failure) changes the session in the Store or the identifier in
\* localStorage; a failed refresh leaves the session present and only records
\* the error in the query.
C10_RefreshKeepsSession ==
    [][\A h \in Hooks : query'[h] # query[h]
          => /\ session' = session
             /\ lsSessionId' = lsSessionId
             /\ query'[h].status = "error"
                => (session' # NoSession /\ query'[h].error # NULL)]_vars

C10_Witness ==
    \E h \in Hooks :
        /\ query[h].status = "error"
        /\ polls = MaxPolls
        /\ session # NoSession
        /\ session.session_id = query[h].id
        /\ lsSessionId = session.session_id

Activates(h) == boot[h].pc = "unmounted" /\ boot'[h].pc # "unmounted"

\* C11: activating useSession while the Store already holds a session goes
\* straight to ready and sends nothing: no createSession execution starts and
\* no getSession fetch starts.
C11_ActivationWithSessionSendsNothing ==
    [][\A h \in Hooks : (Activates(h) /\ session # NoSession)
          => /\ boot'[h].pc = "ready"
             /\ execs' = execs
             /\ query' = query
             /\ polls' = polls]_vars

\* C12: when a bootstrap that tried to restore the cached identifier replaces
\* it in localStorage by a newly created one, the backend had reported the
\* cached identifier unknown.
C12_CachedIdReplacedOnlyWhenUnknown ==
    [][\A e \in BootstrapExecs(execs) :
          (/\ ExecSucceeds(e)
           /\ boot[execs[e].hook].id # NoId
           /\ lsSessionId = boot[execs[e].hook].id
           /\ lsSessionId' # lsSessionId)
          => boot[execs[e].hook].failure = "unknown"]_vars

\* C13: once an upload has succeeded the Store's current file is set, so
\* that the prompt step is rendered.
C13_UploadSetsCurrentFile ==
    \A c \in DOMAIN calls :
        (calls[c].kind = "upload" /\ calls[c].state = "ok") => currentFile # NULL

\* a file the drop zone advertises: .xlsx or .xls by name, or one of the two
\* accepted MIME types
Advertised(file) ==
    \/ endsWith(file.name, <<".","x","l","s","x">>)
    \/ endsWith(file.name, <<".","x","l","s">>)
    \/ file.type \in {XlsxMime, XlsMime}

\* C14: dropping an advertised file starts exactly one upload of that file
\* and raises no validation error.
C14_AdvertisedFileIsUploaded ==
    [][(/\ Len(dropped') = Len(dropped) + 1
        /\ dropped'[Len(dropped')] # <<>>
        /\ Advertised(dropped'[Len(dropped')][1]))
       => /\ Len(calls') = Len(calls) + 1
          /\ calls'[Len(calls')].kind = "upload"
          /\ calls'[Len(calls')].file = dropped'[Len(dropped')][1]
          /\ error' = error]_vars

\* C15: whenever the Store holds a session and localStorage holds a cached
\* identifier, the two identifiers are equal.
C15_StoreMatchesCachedId ==
    (session # NoSession /\ lsSessionId # NoId) => session.session_id = lsSessionId

\* the initial bootstrap of h is still waiting for the Gateway
BootstrapInProgress(h) ==
    \/ boot[h].pc = "restoring"
    \/ /\ boot[h].pc = "creating"
       /\ \E e \in BootstrapExecsOf(execs, h) : execs[e].state \in {"awaitCreate", "awaitFetch"}

\* C16: "Failed to initialize session" is not shown while the initial
\* bootstrap is in progress (restoring or creating).
C16_NoFailureWhileBootstrapping ==
    \A h \in Hooks : BootstrapInProgress(h) => HomeView(h) # "Failed to initialize session"
====
